---------------------------- MODULE Spec2Model ----------------------------
(***************************************************************************)
(* Model of the acquisition-and-delivery core of lensecam.                 *)
(*                                                                         *)
(* Push model: CameraThread (camera_thread.py) runs run() in a worker      *)
(* thread; the controller (the Qt GUI thread of MainWindow in              *)
(* ids/camera_ids_widget.py) issues start()/stop() and receives the        *)
(* image_acquired notifications, which Qt queues for the GUI thread.       *)
(* Each line of run() and stop() that reads or writes shared state is one  *)
(* step, so every interleaving of the two threads is a behaviour.          *)
(*                                                                         *)
(* Pull model: CameraIdsWidget (ids/camera_ids_widget0.py) is driven by a  *)
(* QTimer in the GUI thread; each handler runs to completion.              *)
(*                                                                         *)
(* The camera object (lensecam.ids.camera_ids.CameraIds) is a              *)
(* collaborator; the Dev* definitions give the effect of its methods as    *)
(* the specification of the device capability interface describes them.    *)
(***************************************************************************)
EXTENDS Integers, Sequences, FiniteSets, TLC

\* ------------------------------------------------------------------ bounds
\* Number of start requests the controller issues in a behaviour.
MaxStarts == 2
\* Number of stop requests the controller issues in a behaviour.
MaxStops == 2
\* Number of 'get' requests the controller issues in a behaviour.
MaxGets == 1
\* Size at which the count of queued image_acquired notifications saturates.
MaxPending == 2
\* Bytes in the longest raw frame the conversion is applied to.
MaxBytes == 4

VARIABLES
    \* --- CameraThread fields (camera_thread.py:27-29)
    running,            \* self.running
    stopping,           \* self.stopping
    \* --- camera device state
    camera_acquiring,   \* camera.camera_acquiring
    buffers,            \* allocations made by alloc_memory() and not released
    \* --- positions of the two threads
    wpc,                \* worker thread: position in run(), "idle" = not running
    cpc,                \* GUI thread: "ready" = in the event loop, else position
                        \* in stop() or in the 'get' handler of action_remote()
    \* --- delivery
    pending,            \* image_acquired notifications queued for the GUI thread
    \* --- observation of the run (written, never read by the program)
    lastExit,           \* how run() ended last: none / returned / init_error / loop_error
    lastStop,           \* stop() returned since the last start request: none / noop / done
    stopFrom,           \* phase of the worker when the stop() in progress was called
    nStart,             \* start requests issued
    nStop,              \* stop requests issued
    \* --- push model: the frame in hand and the camera's parameters
    image,              \* run()'s local image_array: none / well_formed / malformed
    exposure,           \* value last handed to camera.set_exposure(), in
                        \* microseconds; 0 before the first call
    frame_rate,         \* frame rate of the camera in frames per second
    bits,               \* bits per sample of the frames the camera returns
    emitted,            \* array handed to image_acquired.emit() last, <<>>: none
    nGet,               \* 'get' requests issued
    tail,               \* <<get_image() calls, emits>> of the loop since stop()
                        \* cleared `running` under it; <<>>: no such stop()
    \* --- pull model: CameraIdsWidget fields and its camera
    connected,          \* self.camera is not None
    timerActive,        \* self.main_timer.isActive()
    interval,           \* self.main_timer.interval() in ms
    fps,                \* camera frame rate
    expo,               \* camera exposure time in microseconds
    expoMax,            \* upper end of the exposure slider's range in ms
    p_acquiring,        \* the pull-model camera is acquiring
    op,                 \* last handler of the widget that ran
    keep,               \* keep_active argument of that handler (stop_acquisition)
    calls,              \* camera methods called by that handler, in order
    nb_bits,            \* bit depth the camera answered in the last tick
    raw,                \* frame camera.get_image() returned in the last tick
    image_array         \* self.image_array

pushVars == <<running, stopping, camera_acquiring, buffers, wpc, cpc, pending,
              lastExit, lastStop, stopFrom, nStart, nStop,
              image, exposure, frame_rate, bits, emitted, nGet, tail>>
frameVars == <<nb_bits, raw, image_array>>
pullVars == <<connected, timerActive, interval, fps, expo, expoMax, p_acquiring,
              op, keep, calls, nb_bits, raw, image_array>>
vars == <<running, stopping, camera_acquiring, buffers, wpc, cpc, pending,
          lastExit, lastStop, stopFrom, nStart, nStop,
          image, exposure, frame_rate, bits, emitted, nGet, tail,
          connected, timerActive, interval, fps, expo, expoMax, p_acquiring,
          op, keep, calls, nb_bits, raw, image_array>>

\* Positions of the worker inside the acquire loop (camera_thread.py:62-65).
LoopPcs == {"test", "get", "emit", "ack"}
\* Positions of the worker in the start sequence (camera_thread.py:57-61).
StartupPcs == {"check", "init", "alloc", "start", "set_running"}

Min(a, b) == IF a < b THEN a ELSE b

\* Phase of the worker thread, as seen by a request issued now.
WorkerPhase ==
    IF wpc = "idle" THEN "idle"
    ELSE IF wpc \in StartupPcs THEN "startup" ELSE "loop"

\* ------------------------------------------------- camera device (push model)
\* camera.init_camera(): prepares the device, no state the core reads.
DevInitCamera == UNCHANGED <<camera_acquiring, buffers>>
\* camera.alloc_memory(): one more buffer allocation is outstanding.
DevAllocMemory == buffers' = buffers + 1 /\ UNCHANGED camera_acquiring
\* camera.start_acquisition(): the device captures.
DevStartAcquisition == camera_acquiring' = TRUE /\ UNCHANGED buffers
\* camera.stop_acquisition(): the device no longer captures.
DevStopAcquisition == camera_acquiring' = FALSE /\ UNCHANGED buffers
\* camera.free_memory(): every outstanding allocation is released.
DevFreeMemory == buffers' = 0 /\ UNCHANGED camera_acquiring

\* What camera.get_image() hands to the acquire loop: a frame whose buffer
\* matches the declared dimensions, or one whose buffer does not.
FrameKinds == {"well_formed", "malformed"}

\* Frame rates the camera of the push model may be running at; MainWindow
\* never sets one and only reads it (get_frame_rate) for its label.
DeviceFrameRates == {10, 50}

\* Bits per sample the camera of the push model may deliver; MainWindow
\* never sets a colour mode.
DeviceBitDepths == {8, 12}

\* Bytes of the frame of each kind: two samples of 16 bits (4095 and 16, low
\* byte first) or four of 8 bits; the malformed one lacks its last byte.
RawOf == [well_formed |-> <<255, 15, 16, 0>>, malformed |-> <<255, 15, 16>>]

\* State after MainWindow() and main_window.set_camera(camera_ids).
PushInit ==
    /\ running = FALSE
    /\ stopping = FALSE
    /\ camera_acquiring = FALSE
    /\ buffers = 0
    /\ wpc = "idle"
    /\ cpc = "ready"
    /\ pending = 0
    /\ lastExit = "none"
    /\ lastStop = "none"
    /\ stopFrom = "none"
    /\ nStart = 0
    /\ nStop = 0
    /\ image = "none"
    /\ exposure = 0
    /\ frame_rate \in DeviceFrameRates
    /\ bits \in DeviceBitDepths
    /\ emitted = <<>>
    /\ nGet = 0
    /\ tail = <<>>

\* The loop has made g more get_image() calls and e more emits; counted
\* (up to 2) once stop() has cleared `running`.
TailCount(g, e) ==
    tail' = IF tail = <<>> THEN tail
            ELSE <<Min(tail[1] + g, 2), Min(tail[2] + e, 2)>>

\* ------------------------------------------------------ worker: run()
\* The except clause of run(): the exception is printed and run() returns.
WExcept(kind) ==
    /\ wpc' = "idle"
    /\ lastExit' = kind

\* Variant of the step below: run() starts the device whatever its state.
WCheck_AlwaysInit ==
    /\ wpc = "check"
    /\ wpc' = "init"
    /\ UNCHANGED <<running, stopping, camera_acquiring, buffers, cpc, pending,
                   lastExit, lastStop, stopFrom, nStart, nStop, 
                   image, exposure, frame_rate,
                   bits, emitted, nGet, tail, pullVars>>

\* line 57: if self.camera.camera_acquiring is False
WCheck ==
    /\ wpc = "check"
    /\ wpc' = IF camera_acquiring = FALSE THEN "init" ELSE "test"
    /\ UNCHANGED <<running, stopping, camera_acquiring, buffers, cpc, pending,
                   lastExit, lastStop, stopFrom, nStart, nStop, 
                   image, exposure, frame_rate,
                   bits, emitted, nGet, tail, pullVars>>

\* line 58: self.camera.init_camera()
WInit ==
    /\ wpc = "init"
    /\ DevInitCamera
    /\ wpc' = "alloc"
    /\ UNCHANGED <<running, stopping, cpc, pending,
                   lastExit, lastStop, stopFrom, nStart, nStop, 
                   image, exposure, frame_rate,
                   bits, emitted, nGet, tail, pullVars>>

\* line 58 raises
WInitFail ==
    /\ wpc = "init"
    /\ WExcept("init_error")
    /\ UNCHANGED <<running, stopping, camera_acquiring, buffers, cpc, pending,
                   lastStop, stopFrom, nStart, nStop, 
                   image, exposure, frame_rate,
                   bits, emitted, nGet, tail, pullVars>>

\* line 59: self.camera.alloc_memory()
WAlloc ==
    /\ wpc = "alloc"
    /\ DevAllocMemory
    /\ wpc' = "start"
    /\ UNCHANGED <<running, stopping, cpc, pending,
                   lastExit, lastStop, stopFrom, nStart, nStop, 
                   image, exposure, frame_rate,
                   bits, emitted, nGet, tail, pullVars>>

\* line 59 raises
WAllocFail ==
    /\ wpc = "alloc"
    /\ WExcept("init_error")
    /\ UNCHANGED <<running, stopping, camera_acquiring, buffers, cpc, pending,
                   lastStop, stopFrom, nStart, nStop, 
                   image, exposure, frame_rate,
                   bits, emitted, nGet, tail, pullVars>>

\* line 60: self.camera.start_acquisition()
WStart ==
    /\ wpc = "start"
    /\ DevStartAcquisition
    /\ wpc' = "set_running"
    /\ UNCHANGED <<running, stopping, cpc, pending,
                   lastExit, lastStop, stopFrom, nStart, nStop, 
                   image, exposure, frame_rate,
                   bits, emitted, nGet, tail, pullVars>>

\* line 60 raises
WStartFail ==
    /\ wpc = "start"
    /\ WExcept("init_error")
    /\ UNCHANGED <<running, stopping, camera_acquiring, buffers, cpc, pending,
                   lastStop, stopFrom, nStart, nStop, 
                   image, exposure, frame_rate,
                   bits, emitted, nGet, tail, pullVars>>

\* line 61: self.running = True
WSetRunning ==
    /\ wpc = "set_running"
    /\ running' = TRUE
    /\ wpc' = "test"
    /\ UNCHANGED <<stopping, camera_acquiring, buffers, cpc, pending,
                   lastExit, lastStop, stopFrom, nStart, nStop, 
                   image, exposure, frame_rate,
                   bits, emitted, nGet, tail, pullVars>>

\* line 62: while self.running; run() returns when the flag is cleared
WTest ==
    /\ wpc = "test"
    /\ IF running
         THEN wpc' = "get" /\ UNCHANGED lastExit
         ELSE wpc' = "idle" /\ lastExit' = "returned"
    /\ UNCHANGED <<running, stopping, camera_acquiring, buffers, cpc, pending,
                   lastStop, stopFrom, nStart, nStop, 
                   image, exposure, frame_rate,
                   bits, emitted, nGet, tail, pullVars>>

\* line 63: image_array = self.camera.get_image() returns
WGetImage ==
    /\ wpc = "get"
    /\ \E f \in FrameKinds : image' = f
    /\ TailCount(1, 0)
    /\ wpc' = "emit"
    /\ UNCHANGED <<running, stopping, camera_acquiring, buffers, cpc, pending,
                   lastExit, lastStop, stopFrom, nStart, nStop,
                   exposure, frame_rate,
                   bits, emitted, nGet, pullVars>>

\* Variant of the handler below: the exception is swallowed inside the loop
\* and the loop goes on.
WGetImageFail_Continue ==
    /\ wpc = "get"
    /\ TailCount(1, 0)
    /\ wpc' = "test"
    /\ UNCHANGED <<running, stopping, camera_acquiring, buffers, cpc, pending,
                   lastExit, lastStop, stopFrom, nStart, nStop,
                   image, exposure, frame_rate,
                   bits, emitted, nGet, pullVars>>

\* line 63 raises
WGetImageFail ==
    /\ wpc = "get"
    /\ TailCount(1, 0)
    /\ WExcept("loop_error")
    /\ UNCHANGED <<running, stopping, camera_acquiring, buffers, cpc, pending,
                   lastStop, stopFrom, nStart, nStop,
                   image, exposure, frame_rate,
                   bits, emitted, nGet, pullVars>>

\* line 64: self.image_acquired.emit(image_array), queued for the GUI thread
WEmit ==
    /\ wpc = "emit"
    /\ emitted' = RawOf[image]
    /\ pending' = Min(pending + 1, MaxPending)
    /\ TailCount(0, 1)
    /\ wpc' = "ack"
    /\ UNCHANGED <<running, stopping, camera_acquiring, buffers, cpc,
                   lastExit, lastStop, stopFrom, nStart, nStop,
                   image, exposure, frame_rate, bits, nGet, pullVars>>

\* line 64 raises (emit rejects what get_image() returned)
WEmitFail ==
    /\ wpc = "emit"
    /\ WExcept("loop_error")
    /\ UNCHANGED <<running, stopping, camera_acquiring, buffers, cpc, pending,
                   lastStop, stopFrom, nStart, nStop, 
                   image, exposure, frame_rate,
                   bits, emitted, nGet, tail, pullVars>>

\* line 65: self.stopping = False
WAck ==
    /\ wpc = "ack"
    /\ stopping' = FALSE
    /\ wpc' = "test"
    /\ UNCHANGED <<running, camera_acquiring, buffers, cpc, pending,
                   lastExit, lastStop, stopFrom, nStart, nStop, 
                   image, exposure, frame_rate,
                   bits, emitted, nGet, tail, pullVars>>

\* ------------------------------------------- controller: MainWindow, stop()
\* action_remote('start'): self.camera_thread.start(). QThread.start() begins
\* run() in the worker thread, and does nothing while the thread is running.
CStartRequest ==
    /\ cpc = "ready"
    /\ nStart < MaxStarts
    /\ nStart' = nStart + 1
    /\ lastStop' = "none"
    /\ wpc' = IF wpc = "idle" THEN "check" ELSE wpc
    /\ tail' = IF wpc = "idle" THEN <<>> ELSE tail
    /\ UNCHANGED <<running, stopping, camera_acquiring, buffers, cpc, pending,
                   lastExit, stopFrom, nStop,
                   image, exposure, frame_rate,
                   bits, emitted, nGet, pullVars>>

\* Variant of the request below: stop() without the test of line 36.
CStopRequest_NoGuard ==
    /\ cpc = "ready"
    /\ nStop < MaxStops
    /\ nStop' = nStop + 1
    /\ cpc' = "clear_running"
    /\ stopFrom' = WorkerPhase
    /\ \E remote \in BOOLEAN :
         IF remote THEN exposure' = 1000 ELSE UNCHANGED exposure
    /\ UNCHANGED <<running, stopping, camera_acquiring, buffers, wpc, pending,
                   lastExit, lastStop, nStart,
                   image, frame_rate,
                   bits, emitted, nGet, tail, pullVars>>

\* action_remote('stop'): camera.set_exposure(1000), then
\* self.camera_thread.stop(); closeEvent: self.camera_thread.stop() alone.
\* stop() line 36: if self.camera.camera_acquiring is True; otherwise stop()
\* returns at once.
CStopRequest ==
    /\ cpc = "ready"
    /\ nStop < MaxStops
    /\ nStop' = nStop + 1
    /\ IF camera_acquiring = TRUE
         THEN /\ cpc' = "clear_running"
              /\ stopFrom' = WorkerPhase
              /\ UNCHANGED lastStop
         ELSE /\ cpc' = "ready"
              /\ lastStop' = "noop"
              /\ UNCHANGED stopFrom
    /\ \E remote \in BOOLEAN :
         IF remote THEN exposure' = 1000 ELSE UNCHANGED exposure
    /\ UNCHANGED <<running, stopping, camera_acquiring, buffers, wpc, pending,
                   lastExit, nStart,
                   image, frame_rate,
                   bits, emitted, nGet, tail, pullVars>>

\* action_remote('expo'): self.camera_widget.camera.set_exposure(20000)
CExpoRequest ==
    /\ cpc = "ready"
    /\ exposure' = 20000
    /\ UNCHANGED <<running, stopping, camera_acquiring, buffers, wpc, cpc,
                   pending, lastExit, lastStop, stopFrom, nStart, nStop,
                   image, frame_rate,
                   bits, emitted, nGet, tail, pullVars>>

\* Variant of the step below: the flag of the loop is left as it is.
CClearRunning_KeepsRunning ==
    /\ cpc = "clear_running"
    /\ tail' = IF stopFrom = "loop" /\ running THEN <<0, 0>> ELSE tail
    /\ cpc' = "set_stopping"
    /\ UNCHANGED <<running, stopping, camera_acquiring, buffers, wpc, pending,
                   lastExit, lastStop, stopFrom, nStart, nStop,
                   image, exposure, frame_rate,
                   bits, emitted, nGet, pullVars>>

\* stop() line 37: self.running = False
CClearRunning ==
    /\ cpc = "clear_running"
    /\ running' = FALSE
    /\ tail' = IF stopFrom = "loop" /\ running THEN <<0, 0>> ELSE tail
    /\ cpc' = "set_stopping"
    /\ UNCHANGED <<stopping, camera_acquiring, buffers, wpc, pending,
                   lastExit, lastStop, stopFrom, nStart, nStop,
                   image, exposure, frame_rate,
                   bits, emitted, nGet, pullVars>>

\* stop() line 38: self.stopping = True
CSetStopping ==
    /\ cpc = "set_stopping"
    /\ stopping' = TRUE
    /\ cpc' = "wait"
    /\ UNCHANGED <<running, camera_acquiring, buffers, wpc, pending,
                   lastExit, lastStop, stopFrom, nStart, nStop, 
                   image, exposure, frame_rate,
                   bits, emitted, nGet, tail, pullVars>>

\* Variant of the step below: stop() goes on without waiting for the loop.
CWait_NoWait ==
    /\ cpc = "wait"
    /\ cpc' = "dev_stop"
    /\ UNCHANGED <<running, stopping, camera_acquiring, buffers, wpc, pending,
                   lastExit, lastStop, stopFrom, nStart, nStop, 
                   image, exposure, frame_rate,
                   bits, emitted, nGet, tail, pullVars>>

\* stop() lines 39-40: while self.stopping == True: pass
\* The step is the exit of the loop; spinning changes nothing.
CWait ==
    /\ cpc = "wait"
    /\ stopping = FALSE
    /\ cpc' = "dev_stop"
    /\ UNCHANGED <<running, stopping, camera_acquiring, buffers, wpc, pending,
                   lastExit, lastStop, stopFrom, nStart, nStop, 
                   image, exposure, frame_rate,
                   bits, emitted, nGet, tail, pullVars>>

\* stop() line 42: self.camera.stop_acquisition()
CDevStop ==
    /\ cpc = "dev_stop"
    /\ DevStopAcquisition
    /\ cpc' = "dev_free"
    /\ UNCHANGED <<running, stopping, wpc, pending,
                   lastExit, lastStop, stopFrom, nStart, nStop, 
                   image, exposure, frame_rate,
                   bits, emitted, nGet, tail, pullVars>>

\* stop() line 44: self.camera.free_memory(), then stop() returns
CDevFree ==
    /\ cpc = "dev_free"
    /\ DevFreeMemory
    /\ cpc' = "ready"
    /\ lastStop' = "done"
    /\ stopFrom' = "none"
    /\ UNCHANGED <<running, stopping, wpc, pending,
                   lastExit, nStart, nStop, 
                   image, exposure, frame_rate,
                   bits, emitted, nGet, tail, pullVars>>

\* Positions of the GUI thread inside the 'get' handler: the camera call it
\* makes next (camera_ids_widget.py:298-323).
GetPcs == {"get_init", "get_alloc", "get_start", "get_image", "get_stop",
           "get_free"}

\* action_remote('get'): the handler is entered.
CGetRequest ==
    /\ cpc = "ready"
    /\ nGet < MaxGets
    /\ nGet' = nGet + 1
    /\ cpc' = "get_init"
    /\ UNCHANGED <<running, stopping, camera_acquiring, buffers, wpc, pending,
                   lastExit, lastStop, stopFrom, nStart, nStop,
                   image, exposure, frame_rate, bits, emitted, tail, pullVars>>

\* line 298: self.camera_widget.camera.init_camera()
CGetInit ==
    /\ cpc = "get_init"
    /\ DevInitCamera
    /\ cpc' = "get_alloc"
    /\ UNCHANGED <<running, stopping, wpc, pending,
                   lastExit, lastStop, stopFrom, nStart, nStop,
                   image, exposure, frame_rate, bits, emitted, nGet, tail, pullVars>>

\* line 299: self.camera_widget.camera.alloc_memory()
CGetAlloc ==
    /\ cpc = "get_alloc"
    /\ DevAllocMemory
    /\ cpc' = "get_start"
    /\ UNCHANGED <<running, stopping, wpc, pending,
                   lastExit, lastStop, stopFrom, nStart, nStop,
                   image, exposure, frame_rate, bits, emitted, nGet, tail, pullVars>>

\* line 300: self.camera_widget.camera.start_acquisition()
CGetStart ==
    /\ cpc = "get_start"
    /\ DevStartAcquisition
    /\ cpc' = "get_image"
    /\ UNCHANGED <<running, stopping, wpc, pending,
                   lastExit, lastStop, stopFrom, nStart, nStop,
                   image, exposure, frame_rate, bits, emitted, nGet, tail, pullVars>>

\* lines 301-321: raw_array = self.camera_widget.camera.get_image(), shown
\* in the display of the widget
CGetImage ==
    /\ cpc = "get_image"
    /\ cpc' = "get_stop"
    /\ UNCHANGED <<running, stopping, camera_acquiring, buffers, wpc, pending,
                   lastExit, lastStop, stopFrom, nStart, nStop,
                   image, exposure, frame_rate, bits, emitted, nGet, tail, pullVars>>

\* line 322: self.camera_widget.camera.stop_acquisition()
CGetStop ==
    /\ cpc = "get_stop"
    /\ DevStopAcquisition
    /\ cpc' = "get_free"
    /\ UNCHANGED <<running, stopping, wpc, pending,
                   lastExit, lastStop, stopFrom, nStart, nStop,
                   image, exposure, frame_rate, bits, emitted, nGet, tail, pullVars>>

\* line 323: self.camera_widget.camera.free_memory(), the handler returns
CGetFree ==
    /\ cpc = "get_free"
    /\ DevFreeMemory
    /\ cpc' = "ready"
    /\ UNCHANGED <<running, stopping, wpc, pending,
                   lastExit, lastStop, stopFrom, nStart, nStop,
                   image, exposure, frame_rate, bits, emitted, nGet, tail, pullVars>>

\* lines 324-325: the call the handler is at raises; the exception is
\* printed and the handler returns.
CGetFail ==
    /\ cpc \in GetPcs
    /\ cpc' = "ready"
    /\ UNCHANGED <<running, stopping, camera_acquiring, buffers, wpc, pending,
                   lastExit, lastStop, stopFrom, nStart, nStop,
                   image, exposure, frame_rate, bits, emitted, nGet, tail, pullVars>>

\* update_image(): the GUI event loop hands one queued notification to the
\* slot; it runs only when the GUI thread is back in its event loop.
CDeliver ==
    /\ cpc = "ready"
    /\ pending > 0
    /\ pending' = pending - 1
    /\ UNCHANGED <<running, stopping, camera_acquiring, buffers, wpc, cpc,
                   lastExit, lastStop, stopFrom, nStart, nStop, 
                   image, exposure, frame_rate,
                   bits, emitted, nGet, tail, pullVars>>

\* ------------------------------------------------------ frame normalizer
\* Bit depths of the raw frames (get_bits_per_pixel of the colour mode).
BitDepths == {8, 10, 12, 16}

\* Values the bytes of a raw frame are drawn from: 16 is <<16, 0>> and 4095 is
\* <<255, 15>> as little-endian 16-bit samples.
ByteValues == {0, 15, 16, 255}

\* Raw frames of at most n bytes, as camera.get_image() returns them.
Frames(n) == UNION {[1..k -> ByteValues] : k \in 1..n}

\* image_array.view(np.uint16) raises ValueError on an odd number of bytes.
ViewRaises(nb, array) == nb > 8 /\ Len(array) % 2 # 0

\* image_array.view(np.uint16): pairs of bytes, low byte first.
View16(array) ==
    [i \in 1..(Len(array) \div 2) |-> array[2 * i - 1] + 256 * array[2 * i]]

\* Variant of the divisor below: shift by the whole bit depth less 7.
Scale_OffByOne(nb) == 2 ^ (nb - 7)

\* 2 ** (nb_bits - 8)
Scale(nb) == 2 ^ (nb - 8)

\* .astype(np.uint8) of a non-negative float: the fraction is dropped; a
\* value above 255 is outside the target type, where the conversion either
\* wraps or saturates depending on the platform.
CastU8(x) == IF x < 256 THEN {x} ELSE {x % 256, 255}

\* Arrays whose i-th element is one of the conversions of the i-th quotient.
RECURSIVE CastAll(_)
CastAll(q) ==
    IF q = <<>> THEN {<<>>}
    ELSE {<<h>> \o t : h \in CastU8(Head(q)), t \in CastAll(Tail(q))}

\* Variant of the conversion below: the bytes are never viewed as 16-bit
\* samples, each byte is scaled on its own.
get_disp_image_NoView(nb, array) ==
    IF nb > 8
      THEN CastAll([i \in 1..Len(array) |-> array[i] \div Scale(nb)])
      ELSE {array}

\* Variant of the conversion below: the scaling is applied from 8 bits on.
get_disp_image_Scale8(nb, array) ==
    IF nb > 7
      THEN CastAll([i \in 1..Len(array) |-> array[i] \div 2])
      ELSE {array}

\* get_disp_image() lines 511-518: the arrays the conversion of a raw frame
\* of nb bits can return (one array unless a sample is out of range).
get_disp_image(nb, array) ==
    IF nb > 8
      THEN CastAll([i \in 1..(Len(array) \div 2) |-> View16(array)[i] \div Scale(nb)])
      ELSE {array}

\* ------------------------------------------- pull model: CameraIdsWidget
\* Frame rates the frame-rate slider can be set to (its range is 5..50).
FpsValues == {5, 7, 10, 25, 50}

\* Exposure times in ms the exposure slider is moved to (within its range).
ExpoValues == {10, 20, 99}

\* Raw frames a timer tick can get from the camera: one byte, one and two
\* 16-bit samples, and three bytes (no whole number of 16-bit samples).
TickFrames == {<<16>>, <<255, 15>>, <<16, 0>>, <<0, 16, 255>>, <<255, 15, 16, 0>>}

\* Variant of the interval below: the 10 ms of extra time are left out.
TimerInterval_NoMargin(f) == 1000 \div f

\* time_ms = int(1000 / fps + 10): Python truncates the positive quotient.
TimerInterval(f) == (1000 \div f) + 10

\* SmallParamsDisplay.update_params(): the getters the parameter panel calls.
PanelCalls == <<"get_cam_info", "get_color_mode", "get_exposure", "get_frame_rate">>

\* State after CameraIdsWidget.__init__ with no camera device: timer stopped,
\* interval 100 ms, self.camera is None (no frame rate or exposure to read),
\* self.image_array is None (the empty array stands for it).
PullInit ==
    /\ connected = FALSE
    /\ timerActive = FALSE
    /\ interval = 100
    /\ fps = 0
    /\ expo = 0
    /\ expoMax = 0
    /\ p_acquiring = FALSE
    /\ op = "init"
    /\ keep = FALSE
    /\ calls = <<>>
    /\ nb_bits = 8
    /\ raw = <<>>
    /\ image_array = <<>>

\* connect_camera(): the camera object is created and set to its defaults,
\* acquisition starts and the timer is armed from the frame rate. The
\* exposure slider of the parameter panel gets the range 1 .. 1000/fps - 1.
ConnectCamera ==
    /\ ~connected
    /\ connected' = TRUE
    /\ fps' = 10
    /\ expo' = 10000
    /\ expoMax' = (1000 \div fps') - 1
    /\ p_acquiring' = TRUE
    /\ interval' = TimerInterval(fps')
    /\ timerActive' = TRUE
    /\ op' = "connect_camera"
    /\ keep' = FALSE
    /\ calls' = <<"get_cam_info", "set_frame_rate", "set_color_mode",
                  "set_exposure", "set_black_level">> \o PanelCalls
                \o <<"start_acquisition", "get_frame_rate">>
    /\ UNCHANGED frameVars
    /\ UNCHANGED pushVars

\* connect_camera(): CameraIds(cam_dev) raises; the exception is printed and
\* self.camera stays None.
ConnectCameraFail ==
    /\ ~connected
    /\ op' = "connect_camera"
    /\ keep' = FALSE
    /\ calls' = <<>>
    /\ UNCHANGED <<connected, timerActive, interval, fps, expo, expoMax, p_acquiring>>
    /\ UNCHANGED frameVars
    /\ UNCHANGED pushVars

\* Variant of the handler below: the timer is left running.
stop_acquisition_TimerOn(keep_active) ==
    /\ op' = "stop_acquisition"
    /\ keep' = keep_active
    /\ IF connected
         THEN /\ UNCHANGED timerActive
              /\ IF keep_active = FALSE
                   THEN /\ p_acquiring' = FALSE
                        /\ calls' = <<"stop_acquisition">>
                   ELSE /\ UNCHANGED p_acquiring
                        /\ calls' = <<>>
         ELSE /\ calls' = <<>>
              /\ UNCHANGED <<timerActive, p_acquiring>>
    /\ UNCHANGED <<connected, interval, fps, expo, expoMax>>
    /\ UNCHANGED frameVars
    /\ UNCHANGED pushVars

\* CameraIdsWidget.stop_acquisition(keep_active)
stop_acquisition(keep_active) ==
    /\ op' = "stop_acquisition"
    /\ keep' = keep_active
    /\ IF connected
         THEN /\ timerActive' = FALSE
              /\ IF keep_active = FALSE
                   THEN /\ p_acquiring' = FALSE
                        /\ calls' = <<"stop_acquisition">>
                   ELSE /\ UNCHANGED p_acquiring
                        /\ calls' = <<>>
         ELSE /\ calls' = <<>>
              /\ UNCHANGED <<timerActive, p_acquiring>>
    /\ UNCHANGED <<connected, interval, fps, expo, expoMax>>
    /\ UNCHANGED frameVars
    /\ UNCHANGED pushVars

\* action_mode_stop / action_mode_get / any caller of stop_acquisition
StopAcquisition == \E keep_active \in BOOLEAN : stop_acquisition(keep_active)

\* Variant of the handler below: the timer is armed without the test of
\* is_connected().
StartAcquisition_NoGuard ==
    /\ op' = "start_acquisition"
    /\ keep' = FALSE
    /\ p_acquiring' = connected
    /\ interval' = IF connected THEN TimerInterval(fps) ELSE interval
    /\ timerActive' = TRUE
    /\ calls' = IF connected THEN <<"start_acquisition", "get_frame_rate">>
                ELSE <<>>
    /\ UNCHANGED <<connected, fps, expo, expoMax>>
    /\ UNCHANGED frameVars
    /\ UNCHANGED pushVars

\* CameraIdsWidget.start_acquisition()
StartAcquisition ==
    /\ op' = "start_acquisition"
    /\ keep' = FALSE
    /\ IF connected
         THEN /\ p_acquiring' = TRUE
              /\ interval' = TimerInterval(fps)
              /\ timerActive' = TRUE
              /\ calls' = <<"start_acquisition", "get_frame_rate">>
         ELSE /\ calls' = <<>>
              /\ UNCHANGED <<p_acquiring, interval, timerActive>>
    /\ UNCHANGED <<connected, fps, expo, expoMax>>
    /\ UNCHANGED frameVars
    /\ UNCHANGED pushVars

\* Variant of the calls below: the frame is read without restarting.
GetImageCalls_NoStart == <<"is_camera_connected", "get_image", "get_color_mode">>

\* CameraIdsWidget.get_image(): the camera methods one call makes, in order
\* (start_acquisition and get_frame_rate inside self.start_acquisition()).
GetImageCalls == <<"is_camera_connected", "start_acquisition", "get_frame_rate",
                   "get_image", "get_color_mode">>

\* The calls of n successive get_image() calls of the widget.
RECURSIVE RepeatGetImage(_)
RepeatGetImage(n) ==
    IF n = 0 THEN <<>> ELSE GetImageCalls \o RepeatGetImage(n - 1)

\* action_mode_get(): stop_acquisition(), five get_image() calls, each
\* written to a file, then start_acquisition(). Without a camera the first
\* get_image() raises on self.camera and nothing has been done.
ActionModeGet ==
    /\ op' = "action_mode_get"
    /\ keep' = FALSE
    /\ IF connected
         THEN /\ p_acquiring' = TRUE
              /\ interval' = TimerInterval(fps)
              /\ timerActive' = TRUE
              /\ calls' = <<"stop_acquisition">> \o RepeatGetImage(5)
                            \o <<"start_acquisition", "get_frame_rate">>
         ELSE /\ calls' = <<>>
              /\ UNCHANGED <<p_acquiring, interval, timerActive>>
    /\ UNCHANGED <<connected, fps, expo, expoMax>>
    /\ UNCHANGED frameVars
    /\ UNCHANGED pushVars

\* action_mode_get(): in the k-th get_image() the camera's get_image()
\* raises; the exception leaves the handler there.
ActionModeGetFail ==
    \E k \in 1..5 :
        /\ connected
        /\ op' = "action_mode_get_failed"
        /\ keep' = FALSE
        /\ p_acquiring' = TRUE
        /\ interval' = TimerInterval(fps)
        /\ timerActive' = TRUE
        /\ calls' = <<"stop_acquisition">> \o RepeatGetImage(k - 1)
                      \o SubSeq(GetImageCalls, 1, Len(GetImageCalls) - 1)
        /\ UNCHANGED <<connected, fps, expo, expoMax>>
        /\ UNCHANGED frameVars
        /\ UNCHANGED pushVars

\* refresh(): one timer tick; get_disp_image() calls start_acquisition(),
\* reads a frame, converts it, and refresh() stores it in self.image_array.
\* The frame and the bit depth are what the camera answers.
Refresh ==
    \E nb \in BitDepths, array \in TickFrames :
        /\ timerActive
        /\ connected
        /\ ~ViewRaises(nb, array)
        /\ op' = "refresh"
        /\ keep' = FALSE
        /\ p_acquiring' = TRUE
        /\ interval' = TimerInterval(fps)
        /\ timerActive' = TRUE
        /\ calls' = <<"is_camera_connected", "start_acquisition", "get_frame_rate",
                      "get_image", "get_color_mode">>
        /\ nb_bits' = nb
        /\ raw' = array
        /\ image_array' \in get_disp_image(nb, array)
        /\ UNCHANGED <<connected, fps, expo, expoMax>>
        /\ UNCHANGED pushVars

\* Variant of the handler below: the failed tick stops the timer.
RefreshFail_StopsTimer ==
    /\ timerActive
    /\ connected
    /\ op' = "refresh_failed"
    /\ keep' = FALSE
    /\ p_acquiring' = TRUE
    /\ interval' = TimerInterval(fps)
    /\ timerActive' = FALSE
    /\ calls' = <<"is_camera_connected", "start_acquisition", "get_frame_rate",
                  "get_image">>
    /\ UNCHANGED <<nb_bits, raw, image_array>>
    /\ UNCHANGED <<connected, fps, expo, expoMax>>
    /\ UNCHANGED pushVars

\* refresh(): camera.get_image() raises inside get_disp_image(), or the frame
\* it returned cannot be viewed as 16-bit samples; the exception is printed
\* by refresh(), self.image_array is not assigned and the timer goes on.
RefreshFail ==
    /\ timerActive
    /\ connected
    /\ op' = "refresh_failed"
    /\ keep' = FALSE
    /\ p_acquiring' = TRUE
    /\ interval' = TimerInterval(fps)
    /\ timerActive' = TRUE
    /\ \/ /\ calls' = <<"is_camera_connected", "start_acquisition",
                        "get_frame_rate", "get_image">>
          /\ UNCHANGED <<nb_bits, raw>>
       \/ \E nb \in BitDepths, array \in TickFrames :
             /\ ViewRaises(nb, array)
             /\ calls' = <<"is_camera_connected", "start_acquisition",
                           "get_frame_rate", "get_image", "get_color_mode">>
             /\ nb_bits' = nb
             /\ raw' = array
    /\ UNCHANGED image_array
    /\ UNCHANGED <<connected, fps, expo, expoMax>>
    /\ UNCHANGED pushVars

\* CameraIdsParamsWidget.update_params('...:fps'): the exposure is lowered
\* when it exceeds the new frame period, then the frame rate is set. The
\* range of the exposure slider follows the new frame rate.
UpdateFps ==
    \E value \in FpsValues :
        /\ connected
        /\ op' = "update_fps"
        /\ keep' = FALSE
        /\ fps' = value
        /\ expoMax' = (1000 \div value) - 1
        /\ IF expo * value > 1000000
             THEN /\ expo' = ((1000 \div value) - 1) * 1000
                  /\ calls' = <<"get_exposure", "set_exposure", "set_frame_rate">>
                                \o PanelCalls
             ELSE /\ UNCHANGED expo
                  /\ calls' = <<"get_exposure", "set_frame_rate">> \o PanelCalls
        /\ UNCHANGED <<connected, timerActive, interval, p_acquiring>>
        /\ UNCHANGED frameVars
        /\ UNCHANGED pushVars

\* CameraIdsParamsWidget.update_params('...:expo'): the slider value, in ms
\* and within the slider's range, is sent to the camera in microseconds.
UpdateExpo ==
    \E ms \in ExpoValues :
        /\ connected
        /\ ms <= expoMax
        /\ op' = "update_expo"
        /\ keep' = FALSE
        /\ expo' = ms * 1000
        /\ calls' = <<"set_exposure">> \o PanelCalls
        /\ UNCHANGED <<connected, timerActive, interval, fps, expoMax, p_acquiring>>
        /\ UNCHANGED frameVars
        /\ UNCHANGED pushVars

\* ----------------------------------------- the conversion on its own
\* A raw frame and a bit depth, before the conversion is applied.
NormInit ==
    /\ PushInit
    /\ connected = TRUE
    /\ timerActive = FALSE
    /\ interval = 100
    /\ fps = 10
    /\ expo = 10000
    /\ expoMax = 99
    /\ p_acquiring = TRUE
    /\ op = "get_image"
    /\ keep = FALSE
    /\ calls = <<>>
    /\ nb_bits \in BitDepths
    /\ raw \in Frames(MaxBytes)
    /\ image_array = <<>>

\* get_disp_image() lines 511-518 applied to the frame.
Normalize ==
    /\ op = "get_image"
    /\ ~ViewRaises(nb_bits, raw)
    /\ image_array' \in get_disp_image(nb_bits, raw)
    /\ op' = "get_disp_image"
    /\ UNCHANGED <<connected, timerActive, interval, fps, expo, expoMax,
                   p_acquiring, keep, calls, nb_bits, raw>>
    /\ UNCHANGED pushVars

\* get_disp_image() line 513 raises on the frame.
NormalizeFail ==
    /\ op = "get_image"
    /\ ViewRaises(nb_bits, raw)
    /\ op' = "get_disp_image_failed"
    /\ UNCHANGED <<connected, timerActive, interval, fps, expo, expoMax,
                   p_acquiring, keep, calls, nb_bits, raw, image_array>>
    /\ UNCHANGED pushVars

\* ------------------------------------------------------- specifications
Init == PushInit /\ PullInit

\* Steps of the worker thread that complete normally.
Worker ==
    \/ WCheck \/ WInit \/ WAlloc \/ WStart \/ WSetRunning
    \/ WTest \/ WGetImage \/ WEmit \/ WAck

\* Steps of the worker thread in which a camera call raises.
WorkerFail == WInitFail \/ WAllocFail \/ WStartFail \/ WGetImageFail \/ WEmitFail

\* Steps of stop() once it has been entered.
Stopper == CClearRunning \/ CSetStopping \/ CWait \/ CDevStop \/ CDevFree

\* Steps of the 'get' handler once it has been entered.
Getter == CGetInit \/ CGetAlloc \/ CGetStart \/ CGetImage \/ CGetStop \/ CGetFree

\* Push model, camera calls may raise.
Next ==
    \/ CStartRequest \/ CStopRequest \/ CExpoRequest \/ CGetRequest
    \/ CDeliver
    \/ Stopper \/ Getter \/ CGetFail \/ Worker \/ WorkerFail

Spec == Init /\ [][Next]_vars

\* Push model in which every camera call returns, both threads scheduled
\* fairly; the user is free never to issue a request.
NextOK ==
    \/ CStartRequest \/ CStopRequest \/ CExpoRequest \/ CGetRequest
    \/ CDeliver
    \/ Stopper \/ Getter \/ Worker

FairSpec ==
    /\ Init
    /\ [][NextOK]_vars
    /\ WF_vars(Worker) /\ WF_vars(Stopper) /\ WF_vars(Getter) /\ WF_vars(CDeliver)

\* Push model in which every camera call returns except that get_image() in
\* the acquire loop may block for ever: the worker is scheduled fairly for
\* every step but the return of that call.
WorkerButGetImage ==
    \/ WCheck \/ WInit \/ WAlloc \/ WStart \/ WSetRunning
    \/ WTest \/ WEmit \/ WAck

BlockSpec ==
    /\ Init
    /\ [][NextOK]_vars
    /\ WF_vars(WorkerButGetImage) /\ WF_vars(Stopper) /\ WF_vars(Getter)
    /\ WF_vars(CDeliver)

\* Pull model.
PullNext ==
    \/ ConnectCamera \/ ConnectCameraFail
    \/ StopAcquisition \/ StartAcquisition
    \/ Refresh \/ RefreshFail
    \/ UpdateFps \/ UpdateExpo
    \/ ActionModeGet \/ ActionModeGetFail

\* The camera thread of the push model is not part of this program: its
\* variables stay at one of their initial values.
PullStart == Init /\ frame_rate = 10 /\ bits = 8

PullSpec == PullStart /\ [][PullNext]_vars

\* The conversion applied to every raw frame and bit depth.
NormNext == Normalize \/ NormalizeFail

NormSpec == NormInit /\ [][NormNext]_vars

\* ---------------------------------------------------------- properties
\* The acquire loop is parked: run() has returned, or the worker is at the
\* loop test with the flag cleared and will return without another call.
WorkerParked == wpc = "idle" \/ (wpc = "test" /\ ~running)

\* Acquisition state Idle: device not acquiring and the loop ended.
PushIdle == ~camera_acquiring /\ WorkerParked

\* C1: while stop() is past its wait on `stopping` and calls
\* camera.stop_acquisition() and camera.free_memory(), the worker is parked:
\* it is not inside camera.get_image() and will not call it again.
C1_StopOnlyWhenParked ==
    cpc \in {"dev_stop", "dev_free"} => WorkerParked

\* C2: a stop() issued while the device is acquiring and the worker loop is
\* running eventually leaves its wait and returns, when every camera call
\* returns and both threads are scheduled fairly.
C2_StopTerminates ==
    (cpc = "clear_running" /\ stopFrom = "loop") ~> (cpc = "ready")

\* C3: once stop() has returned, and until the next start request, the
\* acquisition state is Idle and no image_acquired notification is produced
\* or received.
C3_IdleAfterStop ==
    /\ [](lastStop # "none" => PushIdle)
    /\ [][(lastStop # "none" /\ lastStop' # "none") => pending' = pending]_vars

\* C4: run() is in its init/alloc/start sequence only while the device is not
\* acquiring, and at most one alloc_memory() is made between two completed
\* stops (never a second allocation on top of an unreleased one).
C4_AllocOncePerCycle ==
    /\ (wpc \in {"init", "alloc", "start"} => ~camera_acquiring)
    /\ buffers <= 1

\* C5: stop() called while the device is not acquiring is a no-op: no device
\* state changes, `running` and `stopping` keep their values, and stop()
\* returns at once without entering its wait.
C5_StopIdleNoop ==
    [][(nStop' = nStop + 1 /\ camera_acquiring = FALSE)
         => /\ cpc = "ready" /\ cpc' = "ready"
            /\ lastStop' = "noop"
            /\ UNCHANGED <<running, stopping, camera_acquiring, buffers, wpc, pending>>]_vars

\* A stop() has been called with the device not acquiring and has returned.
C5_Witness == lastStop = "noop" /\ nStop > 0 /\ ~camera_acquiring /\ cpc = "ready"

\* C6: pull model, stop_acquisition(keep_active) called while Idle (camera
\* connected, timer not active, device not acquiring) calls no camera method
\* and changes nothing, for both values of keep_active.
C6_PullStopIdleNoop ==
    [][(op' = "stop_acquisition" /\ connected /\ ~timerActive /\ ~p_acquiring)
         => /\ calls' = <<>>
            /\ UNCHANGED <<connected, timerActive, interval, fps, expo, p_acquiring>>]_vars

\* C7: when a step of init_camera() -> alloc_memory() -> start_acquisition()
\* fails, the start attempt ends with the device not acquiring and no buffer
\* allocation left behind.
C7_NoPartialAllocation ==
    (wpc = "idle" /\ lastExit = "init_error") => (buffers = 0 /\ ~camera_acquiring)

\* C8: a camera.get_image() call or a delivery that raises ends run() through
\* its except clause (the exception is logged), and the worker leaves the
\* ended state only by a start request: by itself it makes no further
\* get_image() call and produces no further notification.
C8_LoopErrorEndsWorker ==
    [][/\ (wpc = "get" => wpc' \in {"get", "emit", "idle"})
       /\ (wpc = "emit" => wpc' \in {"emit", "ack", "idle"})
       /\ (wpc \in {"get", "emit"} /\ wpc' = "idle" => lastExit' = "loop_error")
       /\ (wpc = "idle" /\ wpc' # "idle" => nStart' = nStart + 1 /\ wpc' = "check")
       /\ (wpc = "idle" => pending' <= pending)]_vars

\* run() has ended on an exception raised in the loop body.
C8_Witness == wpc = "idle" /\ lastExit = "loop_error" /\ camera_acquiring

\* C9: after an exception has ended the worker loop, the device is stopped,
\* its buffers are released and `running` is cleared.
C9_LoopErrorCleansUp ==
    (wpc = "idle" /\ lastExit = "loop_error")
        => (~camera_acquiring /\ buffers = 0 /\ ~running)

\* C10: stop() stops the device before it releases the buffers, leaves the
\* state Idle when it completes, and a start request that follows begins
\* run() again, which then goes through init/alloc/start.
C10_StopThenRestart ==
    /\ [](cpc = "dev_free" => ~camera_acquiring)
    /\ [](lastStop = "done" => PushIdle /\ buffers = 0)
    /\ [][(lastStop = "done" /\ nStart' = nStart + 1) => wpc' = "check"]_vars

\* ------------------------------------------- properties of the pull model
\* The i-th 16-bit sample of a raw frame, low byte first.
SampleAt(array, i) == array[2 * i - 1] + 256 * array[2 * i]

\* Number of samples of a raw frame of nb bits.
SampleCount(nb, array) == IF nb > 8 THEN Len(array) \div 2 ELSE Len(array)

\* The buffer length does not fit the bit depth: no whole number of samples.
Malformed(nb, array) == nb > 8 /\ Len(array) % 2 = 1

\* A valid raw frame of nb bits: whole samples, each in 0 .. 2^nb - 1.
ValidFrame(nb, array) ==
    /\ ~Malformed(nb, array)
    /\ nb > 8 => \A i \in 1..(Len(array) \div 2) : SampleAt(array, i) < 2 ^ nb

\* out is the 8-bit form of the valid frame: sample i divided by 2^(nb-8),
\* fraction dropped; the bytes themselves up to 8 bits.
IsNormalized(nb, array, out) ==
    /\ Len(out) = SampleCount(nb, array)
    /\ IF nb > 8
         THEN \A i \in 1..Len(out) :
                 /\ out[i] * 2 ^ (nb - 8) <= SampleAt(array, i)
                 /\ SampleAt(array, i) < (out[i] + 1) * 2 ^ (nb - 8)
         ELSE out = array

\* n / d rounded to the nearest integer, halves to the even one (round()).
RoundDiv(n, d) ==
    LET q == n \div d
        r == n % d
    IN  IF 2 * r < d THEN q
        ELSE IF 2 * r > d THEN q + 1
        ELSE IF q % 2 = 0 THEN q ELSE q + 1

Max(a, b) == IF a > b THEN a ELSE b

\* The handler that just ran armed the timer at acquisition start.
StartedTimer == op' \in {"connect_camera", "start_acquisition"} /\ connected'

\* C11: a tick of refresh() that fails (camera error, or a frame with no
\* whole number of samples for its bit depth) leaves self.image_array as it
\* was and the timer active; a malformed frame is never delivered, and a tick
\* that gets a valid frame stores its 8-bit form.
C11_FailedTickKeepsTimer ==
    [][/\ (op' = "refresh_failed" => timerActive' /\ image_array' = image_array)
       /\ (Malformed(nb_bits', raw') /\ raw' # raw => op' = "refresh_failed")
       /\ (op' = "refresh" =>
              /\ timerActive'
              /\ ~Malformed(nb_bits', raw')
              /\ (ValidFrame(nb_bits', raw')
                    => IsNormalized(nb_bits', raw', image_array')))]_vars

\* A tick has failed on a malformed frame: the frame stored by an earlier
\* tick is still there and the timer is active.
C11_Witness ==
    /\ op = "refresh_failed"
    /\ Malformed(nb_bits, raw)
    /\ image_array # <<>>
    /\ timerActive

\* C13 as stated: the interval set when acquisition starts is
\* max(1, round(1000/fps) + 10) for every frame rate.
C13_IntervalRounded ==
    [][StartedTimer => interval' = Max(1, RoundDiv(1000, fps') + 10)]_vars

\* C13 amended: the interval set when acquisition starts is
\* floor(1000/fps) + 10 (the quotient is truncated, not rounded); it is 110 ms
\* at 10 frames/s and 50 ms at 25 frames/s.
C13_IntervalTruncated ==
    [][StartedTimer =>
          /\ (interval' - 10) * fps' <= 1000
          /\ 1000 < (interval' - 9) * fps'
          /\ (fps' = 10 => interval' = 110)
          /\ (fps' = 25 => interval' = 50)]_vars

\* Acquisition was started at 7 frames/s: 1000/7 = 142.86 gives 152 ms.
C13_Witness ==
    op = "start_acquisition" /\ connected /\ timerActive /\ fps = 7 /\ interval = 152

\* C14: when update_params('fps') changes the frame rate while the timer is
\* running, the timer has the interval of the new frame rate.
C14_RearmOnFpsChange ==
    [][(op' = "update_fps" /\ timerActive)
         => (timerActive' /\ interval' = TimerInterval(fps'))]_vars

\* C15: with a camera connected, stop_acquisition(keep_active) stops the
\* timer; with keep_active it calls no camera method and leaves the device's
\* acquiring state alone, without it it calls camera.stop_acquisition(). No
\* tick runs while the timer is stopped, and the timer becomes active again
\* only in a handler that starts acquisition.
C15_StopKeepActive ==
    [][/\ (op' = "stop_acquisition" /\ connected) =>
              /\ timerActive' = FALSE
              /\ (keep' => p_acquiring' = p_acquiring /\ calls' = <<>>)
              /\ (~keep' => ~p_acquiring' /\ calls' = <<"stop_acquisition">>)
       /\ (~timerActive => op' \notin {"refresh", "refresh_failed"})
       /\ (~timerActive /\ timerActive'
              => \E i \in 1..Len(calls') : calls'[i] = "start_acquisition")]_vars

\* stop_acquisition(keep_active=True) has run on an acquiring camera.
C15_Witness ==
    op = "stop_acquisition" /\ keep /\ connected /\ ~timerActive /\ p_acquiring

\* C16: for a valid raw frame of 8, 10, 12 or 16 bits the conversion returns
\* one value per sample, each in 0..255.
C16_OutputShape ==
    (op = "get_disp_image" /\ ValidFrame(nb_bits, raw)) =>
        /\ Len(image_array) = SampleCount(nb_bits, raw)
        /\ \A i \in 1..Len(image_array) : image_array[i] \in 0..255

\* A 16-bit frame of two samples has been converted.
C16_Witness ==
    op = "get_disp_image" /\ nb_bits = 16 /\ Len(raw) = 4 /\ Len(image_array) = 2

\* C17: up to 8 bits the conversion returns the bytes unchanged.
C17_Identity8 ==
    (op = "get_disp_image" /\ nb_bits <= 8) => image_array = raw

\* An 8-bit frame with the bytes 255, 15, 16, 0 has been converted.
C17_Witness ==
    op = "get_disp_image" /\ nb_bits = 8 /\ raw = <<255, 15, 16, 0>>
        /\ image_array = <<255, 15, 16, 0>>

C19_ExposureBelowPeriod ==
    connected => expo * fps < 1000000

\* C12: a malformed raw frame held by the acquire loop is dropped and the
\* loop goes on: the worker's step from the emit position leads back to the
\* loop test, without ending run() and without queueing a notification for
\* that frame.
C12_MalformedDropped ==
    [][(wpc = "emit" /\ image = "malformed" /\ wpc' # wpc)
         => (wpc' = "test" /\ pending' = pending)]_vars

\* C20: camera.set_exposure() is never called with an exposure time that is
\* not below the frame period of the current frame rate; such a request is
\* rejected and leaves the exposure and the frame rate as they were.
C20_ExposureRejected ==
    [][(exposure' # exposure) => exposure' * frame_rate' < 1000000]_vars

\* C21: at most one image_acquired notification is pending for the consumer
\* at any moment: a frame emitted before the previous one was received
\* replaces it instead of queueing behind it.
C21_AtMostOnePending == pending <= 1

\* C22: the array the worker loop hands to image_acquired.emit() is the
\* 8-bit form of the valid raw frame it acquired: above 8 bits one value
\* floor(v / 2^(bits-8)) per 16-bit sample, never the raw bytes.
C22_EmitsNormalized ==
    [][(wpc = "emit" /\ wpc' = "ack" /\ ValidFrame(bits, RawOf[image]))
         => IsNormalized(bits, RawOf[image], emitted')]_vars

\* Acquisition state of the push model, read off the two threads: Stopping
\* while stop() is in progress, else Initializing while run() is in its start
\* sequence, Acquiring while it is in the acquire loop, Idle when it is not
\* executing. While the 'get' handler takes its single frame the state is
\* none of the four.
AcquisitionState ==
    IF cpc \in GetPcs THEN "SingleFrame"
    ELSE IF cpc # "ready" THEN "Stopping"
    ELSE IF wpc \in StartupPcs THEN "Initializing"
    ELSE IF wpc \in LoopPcs THEN "Acquiring"
    ELSE "Idle"

\* C23: buffers are allocated and the device captures in the state Acquiring,
\* neither is the case in Idle, and the device never captures without
\* allocated buffers. (Initializing and Stopping are the states in which the
\* allocation is being made or released; nothing is required of them here.)
C23_StateMatchesDevice ==
    /\ (AcquisitionState = "Idle" => buffers = 0 /\ ~camera_acquiring)
    /\ (AcquisitionState = "Acquiring" => buffers > 0 /\ camera_acquiring)
    /\ (camera_acquiring => buffers > 0)

\* The worker thread is executing the acquire loop with the flag set.
LoopRunning == wpc \in LoopPcs /\ running

\* C24: the controller makes no device call of its own while the worker loop
\* is running: neither a call of the 'get' handler (init_camera,
\* alloc_memory, start_acquisition, get_image, stop_acquisition,
\* free_memory) nor the camera.stop_acquisition() and camera.free_memory()
\* of stop() is made then.
C24_ControllerKeepsOff ==
    [][(cpc \in GetPcs \cup {"dev_stop", "dev_free"} /\ cpc' # cpc)
         => ~LoopRunning]_vars

\* C25: a get_image() call of the acquire loop that does not return keeps
\* nobody else waiting: a stop() that is in its wait while the worker is
\* inside get_image() still returns to the event loop of the GUI thread,
\* which serves the controller's requests and the consumer.
C25_BlockedGetBlocksNobody ==
    (cpc = "wait" /\ wpc = "get") ~> (cpc = "ready")

\* C26: when stop() is called with the worker in the acquire loop and
\* `running` set, then after stop() has cleared `running` the loop makes at
\* most one more get_image() call and at most one more emit before run()
\* returns, and when the loop clears `stopping` that stop() has set, the
\* loop test that follows reads `running` False.
C26_OneLastIteration ==
    /\ [](tail # <<>> => tail[1] <= 1 /\ tail[2] <= 1)
    /\ [][(tail # <<>> /\ wpc = "ack" /\ wpc' = "test" /\ stopping)
            => (~stopping' /\ ~running')]_vars
    /\ [][(tail # <<>> /\ wpc = "test" /\ wpc' # "test") => wpc' = "idle"]_vars

\* stop() cleared `running` with the loop inside get_image(): the call
\* returned, its frame was emitted and run() has returned.
C26_Witness ==
    tail = <<1, 1>> /\ wpc = "idle" /\ lastExit = "returned" /\ ~stopping

\* C27: a stop() called while the device is acquiring and run() is not
\* executing enters its wait and stays there: nothing clears `stopping`, and
\* camera.stop_acquisition() and camera.free_memory() are never called by it.
C27_StopWithoutWorkerHangs ==
    /\ [][(nStop' = nStop + 1 /\ camera_acquiring /\ wpc = "idle")
            => cpc' = "clear_running"]_vars
    /\ [][(stopFrom = "idle" /\ cpc = "wait")
            => (cpc' = "wait" /\ stopping' /\ wpc' = "idle"
                /\ UNCHANGED <<camera_acquiring, buffers>>)]_vars
    /\ [](stopFrom = "idle" =>
            /\ cpc \in {"clear_running", "set_stopping", "wait"}
            /\ (cpc = "wait" => stopping))

\* stop() was called after an exception had ended the loop and is waiting.
C27_Witness ==
    stopFrom = "idle" /\ cpc = "wait" /\ stopping /\ camera_acquiring
        /\ lastExit = "loop_error"

\* run() ends in its except clause from inside the acquire loop.
LoopErrorExit == wpc \in {"get", "emit"} /\ wpc' = "idle"

\* C28 as stated: when an exception ends the worker loop `running` is True
\* and the device is acquiring, and the run() begun by a following start
\* request skips init_camera()/alloc_memory()/start_acquisition() and goes
\* to the acquire loop without a further alloc_memory() call.
C28_RestartAfterError ==
    /\ [][LoopErrorExit => (running' /\ camera_acquiring')]_vars
    /\ [][(wpc = "check" /\ lastExit = "loop_error" /\ wpc' # "check")
            => (wpc' = "test" /\ buffers' = buffers)]_vars

\* C28 amended: the except clause that ends the worker loop leaves `running`,
\* the acquiring state of the device and its allocation as they are, so
\* `running` is True unless a stop() has cleared it; a run() that finds
\* camera_acquiring True at line 57 skips the start sequence and goes to the
\* loop test without an alloc_memory() call, otherwise it goes through it.
C28_ErrorExitKeepsState ==
    /\ [][LoopErrorExit =>
            /\ lastExit' = "loop_error"
            /\ UNCHANGED <<running, camera_acquiring, buffers>>
            /\ (~running' => nStop > 0)]_vars
    /\ [][(wpc = "check" /\ wpc' # "check") =>
            IF camera_acquiring
              THEN wpc' = "test" /\ UNCHANGED <<camera_acquiring, buffers>>
              ELSE wpc' = "init"]_vars

\* A second start request after a loop error found the device acquiring: the
\* worker is back in the acquire loop on the allocation of the first run.
C28_Witness ==
    /\ lastExit = "loop_error" /\ nStart = 2 /\ nStop = 0 /\ nGet = 0
    /\ wpc = "get" /\ running /\ camera_acquiring /\ buffers = 1

\* C29: with a camera connected, every handler that reads a frame
\* (get_image() or get_disp_image() of the widget) has called
\* start_acquisition() right before each read and leaves the device
\* acquiring and the timer active with the interval of the current frame
\* rate, also when the handler stopped the acquisition first.
C29_ReadRestartsAcquisition ==
    [][(connected' /\ \E i \in 1..Len(calls') : calls'[i] = "get_image") =>
          /\ \A i \in 1..Len(calls') :
                calls'[i] = "get_image" =>
                    /\ i > 2
                    /\ calls'[i - 2] = "start_acquisition"
                    /\ calls'[i - 1] = "get_frame_rate"
          /\ p_acquiring'
          /\ timerActive'
          /\ (interval' - 10) * fps' <= 1000
          /\ 1000 < (interval' - 9) * fps']_vars

\* action_mode_get() stopped timer and device, and the camera raised in the
\* first get_image() that followed: device acquiring, timer active.
C29_Witness ==
    /\ op = "action_mode_get_failed"
    /\ calls = <<"stop_acquisition", "is_camera_connected", "start_acquisition",
                 "get_frame_rate", "get_image">>
    /\ p_acquiring /\ timerActive /\ fps = 7 /\ interval = 152

\* C30: while no camera is connected, start_acquisition() and
\* stop_acquisition(keep_active) of the widget call no camera method and
\* leave the timer (active state and interval) and everything else as it is.
C30_NoCameraNoEffect ==
    [][(~connected /\ op' \in {"start_acquisition", "stop_acquisition"}) =>
          /\ calls' = <<>>
          /\ UNCHANGED <<connected, timerActive, interval, fps, expo, expoMax,
                         p_acquiring, frameVars>>]_vars

\* start_acquisition() has run without a camera: the timer is as __init__
\* left it.
C30_Witness ==
    /\ ~connected /\ op = "start_acquisition" /\ calls = <<>>
    /\ ~timerActive /\ interval = 100 /\ ~p_acquiring

====
